---- MODULE Spec2Model ----
(***************************************************************************)
(* Model of nvidia/dali/ops.py: the graph builder of DALI's Python front   *)
(* end.  Operator objects (the classes made by python_op_factory, and      *)
(* TFRecordReader) are called with TensorReference inputs; every call      *)
(* builds an _OperatorInstance with a fresh id, fills a copy of the        *)
(* operator's OpSpec and mints the output TensorReferences.                *)
(*                                                                         *)
(* Python values are tagged records: StrV, IntV, ListV and Ref (a          *)
(* TensorReference).  isinstance(x, TensorReference) is IsRef(x),          *)
(* isinstance(x, list) is IsList(x).  Keyword arguments and dicts are      *)
(* sequences of <<key, value>> pairs with distinct keys, in iteration      *)
(* order.  A raise is a record field raised # "none".                      *)
(***************************************************************************)
EXTENDS Integers, Sequences, FiniteSets, TLC

VARIABLES
    op_count,   \* _OpCounter._op_count: the next value of count(0)
    ops,        \* the operator objects the session has constructed
    instances,  \* the _OperatorInstance objects the session has constructed
    call,       \* the last operation and its arguments
    result      \* what the last operation returned or raised

vars == <<op_count, ops, instances, call, result>>

---------------------------------------------------------------------------
(* Bounds *)

MaxOps == 2         \* ids the counter may hand out in one session
MaxSetLen == 2      \* longest input set a caller passes
MaxFactories == 2   \* operator objects constructed in SpecFactory
MaxGenerations == 2 \* calls of generate_outputs on one instance in SpecRegen

---------------------------------------------------------------------------
(* Python values *)

StrV(s) == [t |-> "str", v |-> s]
IntV(n) == [t |-> "int", v |-> n]
ListV(items) == [t |-> "list", items |-> items]
DictV(items) == [t |-> "dict", items |-> items]
NoneV == [t |-> "None"]
TensorReference(name, device, source) ==
    [t |-> "ref", name |-> name, device |-> device, source |-> source]
IsRef(x) == x.t = "ref"
IsList(x) == x.t = "list"

Range(s) == {s[i] : i \in DOMAIN s}
Keys(kw) == {kw[i][1] : i \in DOMAIN kw}
Get(kw, k) == kw[CHOOSE i \in DOMAIN kw : kw[i][1] = k][2]

---------------------------------------------------------------------------
(* backend: OpSpec and the schema registry (nvidia.dali.backend, native) *)

\* b.OpSpec(name)
OpSpec(name) ==
    [name |-> name, args |-> <<>>, inputs |-> <<>>,
     argument_inputs |-> <<>>, outputs |-> <<>>]

\* OpSpec.AddArg: an ordered mapping, the last write of a key wins
AddArg(spec, key, value) ==
    IF key \in Keys(spec.args)
    THEN [spec EXCEPT !.args =
             [i \in DOMAIN spec.args |->
                 IF spec.args[i][1] = key THEN <<key, value>> ELSE spec.args[i]]]
    ELSE [spec EXCEPT !.args = Append(spec.args, <<key, value>>)]

AddInput(spec, name, device) ==
    [spec EXCEPT !.inputs = Append(spec.inputs, <<name, device>>)]

AddArgumentInput(spec, key, name) ==
    [spec EXCEPT !.argument_inputs = Append(spec.argument_inputs, <<key, name>>)]

AddOutput(spec, name, device) ==
    [spec EXCEPT !.outputs = Append(spec.outputs, <<name, device>>)]

\* b.GetSchema(name): the registry's entries for the kinds the model uses.
\* op_device is the device python_op_factory is given for the kind
\* ("cpu" for RegisteredCPUOps/GPUOps/MixedOps, "support" for SupportOps).
Schema ==
    [FileReader |-> [MinNumInput |-> 0, MaxNumInput |-> 0, NumOutput |-> 2,
                     op_device |-> "cpu"],
     Crop |-> [MinNumInput |-> 1, MaxNumInput |-> 2, NumOutput |-> 1,
               op_device |-> "cpu"],
     CoinFlip |-> [MinNumInput |-> 0, MaxNumInput |-> 0, NumOutput |-> 1,
                   op_device |-> "support"],
     _TFRecordReader |-> [MinNumInput |-> 0, MaxNumInput |-> 0, NumOutput |-> 0,
                          op_device |-> "cpu"]]

MinNumInput(schema) == Schema[schema].MinNumInput
MaxNumInput(schema) == Schema[schema].MaxNumInput
CalculateOutputs(schema, spec) == Schema[schema].NumOutput

---------------------------------------------------------------------------
(* _OperatorInstance *)

\* mutant of TName: the id is left out of the name
TNameWithoutId(kind, id, i) ==
    kind \o "_output_" \o ToString(i)

\* str.__add__ of the pieces of an output name (lines 110 and 271)
TName(kind, id, i) ==
    kind \o "_id_" \o ToString(id) \o "_output_" \o ToString(i)

Raise(exc, spec, inputs) ==
    [raised |-> exc, spec |-> spec, inputs |-> inputs]

\* lines 47-54: scalar-handle mode, from the n-th input on
RECURSIVE ScalarLoop(_, _, _)
ScalarLoop(spec, inputs, n) ==
    IF n > Len(inputs) THEN Raise("none", spec, inputs)
    ELSE IF ~IsRef(inputs[n]) THEN Raise("TypeError", spec, inputs)
    ELSE ScalarLoop(AddInput(spec, inputs[n].name, inputs[n].device), inputs, n + 1)

\* mutant of InputSetLoop: the loops nested the other way round (argument
\* outer, index inner)
RECURSIVE InputSetLoopArgumentOuter(_, _, _, _)
InputSetLoopArgumentOuter(spec, inputs, length, n) ==
    IF n = length * Len(inputs) THEN Raise("none", spec, inputs)
    ELSE LET i == n % length
             inp == inputs[(n \div length) + 1]
         IN  IF ~IsList(inp) THEN Raise("TypeError", spec, inputs)
             ELSE IF Len(inp.items) # length THEN Raise("RuntimeError", spec, inputs)
             ELSE IF ~IsRef(inp.items[i + 1]) THEN Raise("TypeError", spec, inputs)
             ELSE InputSetLoopArgumentOuter(
                      AddInput(spec, inp.items[i + 1].name, inp.items[i + 1].device),
                      inputs, length, n + 1)

\* lines 57-78: input-set mode; step n is index i = n \div k of the sets,
\* input j = n % k of the call (index outer, argument inner)
RECURSIVE InputSetLoop(_, _, _, _)
InputSetLoop(spec, inputs, length, n) ==
    IF n = length * Len(inputs) THEN Raise("none", spec, inputs)
    ELSE LET i == n \div Len(inputs)
             inp == inputs[(n % Len(inputs)) + 1]
         IN  IF ~IsList(inp) THEN Raise("TypeError", spec, inputs)
             ELSE IF Len(inp.items) # length THEN Raise("RuntimeError", spec, inputs)
             ELSE IF ~IsRef(inp.items[i + 1]) THEN Raise("TypeError", spec, inputs)
             ELSE InputSetLoop(AddInput(spec, inp.items[i + 1].name,
                                        inp.items[i + 1].device),
                               inputs, length, n + 1)

\* lines 45-84: "Add inputs"
AddInputs(spec, inputs) ==
    IF Len(inputs) = 0 THEN Raise("none", spec, inputs)
    ELSE IF IsRef(inputs[1]) THEN ScalarLoop(spec, inputs, 1)
    ELSE IF IsList(inputs[1]) THEN
        LET length == Len(inputs[1].items)
            r == InputSetLoop(spec, inputs, length, 0)
        IN  IF r.raised # "none" THEN r
            ELSE Raise("none", AddArg(r.spec, "num_input_sets", IntV(length)), inputs)
    ELSE Raise("TypeError", spec, inputs)

\* Whether the local name inp is bound when line 93 reads it: a for loop
\* over inputs (line 47 or line 58) has run at least one iteration.
InpBound(inputs) ==
    /\ Len(inputs) > 0
    /\ \/ IsRef(inputs[1])
       \/ IsList(inputs[1]) /\ Len(inputs[1].items) > 0

\* mutant of ArgumentInputs: AddArgumentInput is given the keyword where the
\* handle's name belongs
RECURSIVE ArgumentInputsKeyAsName(_, _, _, _, _)
ArgumentInputsKeyAsName(spec, inputs, kwargs, bound, n) ==
    IF n > Len(kwargs) THEN Raise("none", spec, inputs)
    ELSE LET k == kwargs[n][1]
             v == kwargs[n][2]
         IN  IF k = "name"
             THEN ArgumentInputsKeyAsName(spec, inputs, kwargs, bound, n + 1)
             ELSE IF ~IsRef(v)
                  THEN Raise(IF bound THEN "TypeError" ELSE "UnboundLocalError",
                             spec, inputs)
             ELSE ArgumentInputsKeyAsName(AddArgumentInput(spec, k, k),
                                          Append(inputs, v), kwargs, bound, n + 1)

\* lines 86-95: "Argument inputs", from the n-th keyword on
RECURSIVE ArgumentInputs(_, _, _, _, _)
ArgumentInputs(spec, inputs, kwargs, bound, n) ==
    IF n > Len(kwargs) THEN Raise("none", spec, inputs)
    ELSE LET k == kwargs[n][1]
             v == kwargs[n][2]
         IN  IF k = "name" THEN ArgumentInputs(spec, inputs, kwargs, bound, n + 1)
             ELSE IF ~IsRef(v)
                  THEN Raise(IF bound THEN "TypeError" ELSE "UnboundLocalError",
                             spec, inputs)
             ELSE ArgumentInputs(AddArgumentInput(spec, k, v.name),
                                 Append(inputs, v), kwargs, bound, n + 1)

\* _OperatorInstance.__init__ with the counter at id: [raised, inst]
OperatorInstance(id, inputs, op, kwargs) ==
    LET name == IF "name" \in Keys(kwargs) THEN Get(kwargs, "name")
                ELSE StrV("__" \o op.cls \o "_" \o ToString(id))
        a == AddInputs(op.spec, inputs)
        k == IF a.raised # "none" THEN a
             ELSE ArgumentInputs(a.spec, inputs, kwargs, InpBound(inputs), 1)
    IN  [raised |-> k.raised,
         inst |-> [id |-> id, name |-> name, op |-> op, spec |-> k.spec,
                   inputs |-> k.inputs, outputs |-> <<>>]]

\* lines 112-113 and 273-274: spec.AddOutput and append_output of one handle
AppendOutput(inst, t) ==
    [inst EXCEPT !.spec = AddOutput(inst.spec, t.name, t.device),
                 !.outputs = Append(inst.outputs, t)]

RECURSIVE GenerateLoop(_, _, _, _)
GenerateLoop(inst, output_device, num_output, i) ==
    IF i = num_output THEN inst
    ELSE GenerateLoop(
             AppendOutput(inst, TensorReference(TName(inst.op.cls, inst.id, i),
                                                output_device, inst.id)),
             output_device, num_output, i + 1)

\* _OperatorInstance.generate_outputs
generate_outputs(inst) ==
    LET output_device == IF inst.op.device = "gpu" \/ inst.op.device = "mixed"
                         THEN "gpu" ELSE "cpu"
        num_output == CalculateOutputs(inst.op.schema, inst.spec)
    IN  GenerateLoop(inst, output_device, num_output, 0)

---------------------------------------------------------------------------
(* The operator classes *)

\* mutant of StoreArgs: the keyword device is not stored on the spec
RECURSIVE StoreArgsWithoutDevice(_, _, _)
StoreArgsWithoutDevice(spec, kwargs, n) ==
    IF n > Len(kwargs) THEN [raised |-> "none", spec |-> spec]
    ELSE LET key == kwargs[n][1]
             value == kwargs[n][2]
         IN  IF IsList(value) /\ Len(value.items) = 0
             THEN [raised |-> "RuntimeError", spec |-> spec]
             ELSE IF key = "device" THEN StoreArgsWithoutDevice(spec, kwargs, n + 1)
             ELSE StoreArgsWithoutDevice(AddArg(spec, key, value), kwargs, n + 1)

\* lines 158-162: "Store the specified arguments", from the n-th keyword on
RECURSIVE StoreArgs(_, _, _)
StoreArgs(spec, kwargs, n) ==
    IF n > Len(kwargs) THEN [raised |-> "none", spec |-> spec]
    ELSE LET key == kwargs[n][1]
             value == kwargs[n][2]
         IN  IF IsList(value) /\ Len(value.items) = 0
             THEN [raised |-> "RuntimeError", spec |-> spec]
             ELSE StoreArgs(AddArg(spec, key, value), kwargs, n + 1)

\* lines 151-155: the device of the operator and the spec it leaves
DeviceArg(spec, op_device, kwargs) ==
    IF "device" \in Keys(kwargs)
    THEN [device |-> Get(kwargs, "device").v, spec |-> spec]
    ELSE [device |-> op_device, spec |-> AddArg(spec, "device", StrV(op_device))]

\* Operator.__init__ of the class python_op_factory(name, op_device) makes
Operator(name, op_device, kwargs) ==
    LET d == DeviceArg(OpSpec(name), op_device, kwargs)
        s == StoreArgs(d.spec, kwargs, 1)
    IN  [raised |-> s.raised,
         op |-> [cls |-> name, schema |-> name, spec |-> s.spec,
                 device |-> d.device, features |-> <<>>]]

\* lines 233-234
RECURSIVE ReaderArgs(_, _, _)
ReaderArgs(spec, kwargs, n) ==
    IF n > Len(kwargs) THEN spec
    ELSE ReaderArgs(AddArg(spec, kwargs[n][1], kwargs[n][2]), kwargs, n + 1)

\* TFRecordReader.__init__
TFRecordReader(path, index_path, features, kwargs) ==
    LET p == IF IsList(path) THEN path ELSE ListV(<<path>>)
        ip == IF IsList(index_path) THEN index_path ELSE ListV(<<index_path>>)
        s == AddArg(AddArg(OpSpec("_TFRecordReader"), "path", p), "index_path", ip)
    IN  [raised |-> "none",
         op |-> [cls |-> "TFRecordReader", schema |-> "_TFRecordReader",
                 spec |-> ReaderArgs(s, kwargs, 1),
                 device |-> "cpu", features |-> features]]

\* lines 182-190 and 256-264: the arity check; the ValueError's format arguments
ArityError(op, inputs) ==
    [raised |-> "ValueError",
     value |-> [name |-> op.cls, min |-> MinNumInput(op.schema),
                max |-> MaxNumInput(op.schema), received |-> Len(inputs)]]

\* mutant of ArityFails: only the upper bound is checked
ArityFailsAboveOnly(op, inputs) ==
    Len(inputs) > MaxNumInput(op.schema)

ArityFails(op, inputs) ==
    \/ Len(inputs) > MaxNumInput(op.schema)
    \/ Len(inputs) < MinNumInput(op.schema)

\* What a call leaves: the counter, the instances it adds, what it returns
Outcome(count, new, res) == [op_count |-> count, new |-> new, result |-> res]

\* mutant of OperatorCall: the instance is constructed before the arity check
OperatorCallCheckedLate(count, op, inputs, kwargs) ==
    LET c == OperatorInstance(count, inputs, op, kwargs)
    IN  IF c.raised # "none"
        THEN Outcome(count + 1, <<>>, [raised |-> c.raised, value |-> NoneV])
        ELSE IF ArityFails(op, inputs)
        THEN Outcome(count + 1, <<>>, ArityError(op, inputs))
        ELSE LET op_instance == generate_outputs(c.inst)
             IN  Outcome(count + 1, <<op_instance>>,
                         [raised |-> "none",
                          value |-> IF Len(op_instance.outputs) = 1
                                    THEN op_instance.outputs[1]
                                    ELSE ListV(op_instance.outputs)])

\* Operator.__call__ with the counter at count
OperatorCall(count, op, inputs, kwargs) ==
    IF ArityFails(op, inputs) THEN Outcome(count, <<>>, ArityError(op, inputs))
    ELSE LET c == OperatorInstance(count, inputs, op, kwargs)
         IN  IF c.raised # "none"
             THEN Outcome(count + 1, <<>>, [raised |-> c.raised, value |-> NoneV])
             ELSE LET op_instance == generate_outputs(c.inst)
                  IN  Outcome(count + 1, <<op_instance>>,
                              [raised |-> "none",
                               value |-> IF Len(op_instance.outputs) = 1
                                         THEN op_instance.outputs[1]
                                         ELSE ListV(op_instance.outputs)])

\* mutant of FeatureLoop: the descriptor values are collected in reverse
RECURSIVE FeatureLoopReversed(_, _, _)
FeatureLoopReversed(r, op, i) ==
    IF i = Len(op.features) THEN r
    ELSE LET feature_name == op.features[i + 1][1]
             feature == op.features[i + 1][2]
             t == TensorReference(TName("_TFRecordReader", r.inst.id, i),
                                  op.device, r.inst.id)
         IN  FeatureLoopReversed(
                 [inst |-> AppendOutput(r.inst, t),
                  outputs |-> Append(r.outputs, <<feature_name, t>>),
                  feature_names |-> Append(r.feature_names, StrV(feature_name)),
                  features |-> <<feature>> \o r.features],
                 op, i + 1)

\* lines 270-277: one output per feature, in the mapping's iteration order;
\* r is [inst, outputs, feature_names, features]
RECURSIVE FeatureLoop(_, _, _)
FeatureLoop(r, op, i) ==
    IF i = Len(op.features) THEN r
    ELSE LET feature_name == op.features[i + 1][1]
             feature == op.features[i + 1][2]
             t == TensorReference(TName("_TFRecordReader", r.inst.id, i),
                                  op.device, r.inst.id)
         IN  FeatureLoop([inst |-> AppendOutput(r.inst, t),
                          outputs |-> Append(r.outputs, <<feature_name, t>>),
                          feature_names |-> Append(r.feature_names, StrV(feature_name)),
                          features |-> Append(r.features, feature)],
                         op, i + 1)

\* TFRecordReader.__call__ with the counter at count
ReaderCall(count, op, inputs, kwargs) ==
    IF ArityFails(op, inputs) THEN Outcome(count, <<>>, ArityError(op, inputs))
    ELSE LET c == OperatorInstance(count, inputs, op, kwargs)
         IN  IF c.raised # "none"
             THEN Outcome(count + 1, <<>>, [raised |-> c.raised, value |-> NoneV])
             ELSE LET r == FeatureLoop([inst |-> c.inst, outputs |-> <<>>,
                                        feature_names |-> <<>>, features |-> <<>>],
                                       op, 0)
                      s == AddArg(AddArg(r.inst.spec, "feature_names",
                                         ListV(r.feature_names)),
                                  "features", ListV(r.features))
                  IN  Outcome(count + 1, <<[r.inst EXCEPT !.spec = s]>>,
                              [raised |-> "none", value |-> DictV(r.outputs)])

---------------------------------------------------------------------------
(* The caller: what a pipeline definition passes to the operators *)

Seqs(S, n) == UNION {[1..m -> S] : m \in 0..n}

\* the handles earlier calls returned
Handles == UNION {Range(instances[i].outputs) : i \in DOMAIN instances}

\* the most positional inputs any registered kind accepts
MaxInputs ==
    CHOOSE m \in {Schema[k].MaxNumInput : k \in DOMAIN Schema} :
        \A k \in DOMAIN Schema : Schema[k].MaxNumInput <= m

NotAHandle == IntV(5)

\* A session call: handles, or one input set of handles; the keyword mean
\* is absent, a handle or a plain number
SessionInputs ==
    Seqs(Handles, MaxInputs) \cup {<<ListV(s)>> : s \in Seqs(Handles, MaxSetLen)}
SessionKwargs ==
    {<<>>} \cup {<< <<"mean", v>> >> : v \in Handles \cup {NotAHandle}}

\* Any call: every positional input is a handle, a plain number or a list
\* of those; the keywords name and mean are absent or present
AnyValue ==
    Handles \cup {NotAHandle}
        \cup {ListV(s) : s \in Seqs(Handles \cup {NotAHandle}, MaxSetLen)}
AnyInputs == Seqs(AnyValue, MaxInputs)
AnyKwargs ==
    LET names == {<<>>, << <<"name", StrV("crop0")>> >>}
        means == {<<>>} \cup {<< <<"mean", v>> >> : v \in Handles \cup {NotAHandle}}
    IN  {n \o m : n \in names, m \in means}

\* The operator objects of the session: a pipeline constructs its operators
\* first (Pipeline.__init__) and calls them afterwards (define_graph)
FeatureMaps ==
    { << <<"image", StrV("f1")>>, <<"label", StrV("f2")>> >>,
      << <<"label", StrV("f2")>>, <<"image", StrV("f1")>> >>,
      << <<"label", StrV("f2")>> >> }
SessionOps(features) ==
    << Operator("FileReader", Schema["FileReader"].op_device, <<>>).op,
       Operator("Crop", Schema["Crop"].op_device, << <<"device", StrV("gpu")>> >>).op,
       TFRecordReader(StrV("train.rec"), StrV("train.idx"), features, <<>>).op >>

NoCall == [fn |-> "none", op |-> 0, inputs |-> <<>>, kwargs |-> <<>>]
NoResult == [raised |-> "none", value |-> NoneV]

---------------------------------------------------------------------------
(* Actions *)

\* op(*inputs, **kwargs) on an object of a python_op_factory class
OperatorStep(o, inputs, kwargs) ==
    /\ ops[o].cls # "TFRecordReader"
    /\ LET out == OperatorCall(op_count, ops[o], inputs, kwargs)
       IN  /\ op_count' = out.op_count
           /\ instances' = instances \o out.new
           /\ result' = out.result
    /\ UNCHANGED ops

\* reader(*inputs, **kwargs) on a TFRecordReader object
ReaderStep(o, inputs, kwargs) ==
    /\ ops[o].cls = "TFRecordReader"
    /\ LET out == ReaderCall(op_count, ops[o], inputs, kwargs)
       IN  /\ op_count' = out.op_count
           /\ instances' = instances \o out.new
           /\ result' = out.result
    /\ UNCHANGED ops

---------------------------------------------------------------------------
(* Spec: the graph-building session of one pipeline.  The counter is      *)
(* capped at MaxOps.                                                       *)

Init ==
    /\ op_count = 0
    /\ ops \in {SessionOps(f) : f \in FeatureMaps}
    /\ instances = <<>>
    /\ call = NoCall
    /\ result = NoResult

CallOperator ==
    /\ op_count < MaxOps
    /\ \E o \in DOMAIN ops, inputs \in SessionInputs, kwargs \in SessionKwargs :
          OperatorStep(o, inputs, kwargs)
    /\ UNCHANGED call

CallTFRecordReader ==
    /\ op_count < MaxOps
    /\ \E o \in DOMAIN ops, inputs \in SessionInputs, kwargs \in SessionKwargs :
          ReaderStep(o, inputs, kwargs)
    /\ UNCHANGED call

Next == CallOperator \/ CallTFRecordReader

Spec == Init /\ [][Next]_vars

---------------------------------------------------------------------------
(* SpecCall: one call examined with every shape of arguments.  It starts  *)
(* where the session stands after FileReader() has returned its two       *)
(* handles, and records the arguments of each call in the variable call.  *)

FirstCall ==
    OperatorCall(0, Operator("FileReader", Schema["FileReader"].op_device, <<>>).op,
                 <<>>, <<>>)

InitCall ==
    /\ op_count = FirstCall.op_count
    /\ ops \in {SessionOps(f) : f \in FeatureMaps}
    /\ instances = FirstCall.new
    /\ call = NoCall
    /\ result = FirstCall.result

\* the call under examination has not been made yet
Examined == call = NoCall

InvokeOperator ==
    /\ Examined
    /\ \E o \in DOMAIN ops, inputs \in AnyInputs, kwargs \in AnyKwargs :
          /\ OperatorStep(o, inputs, kwargs)
          /\ call' = [fn |-> "Operator.__call__", op |-> o, inputs |-> inputs,
                      kwargs |-> kwargs]

InvokeTFRecordReader ==
    /\ Examined
    /\ \E o \in DOMAIN ops, inputs \in AnyInputs, kwargs \in AnyKwargs :
          /\ ReaderStep(o, inputs, kwargs)
          /\ call' = [fn |-> "TFRecordReader.__call__", op |-> o,
                      inputs |-> inputs, kwargs |-> kwargs]

NextCall == InvokeOperator \/ InvokeTFRecordReader

SpecCall == InitCall /\ [][NextCall]_vars

---------------------------------------------------------------------------
(* SpecFactory: construction of the operator objects *)

GenericKinds == {"FileReader", "Crop", "CoinFlip"}

FactoryKwargs ==
    LET devices == {<<>>, << <<"device", StrV("gpu")>> >>}
        crops == {<<>>} \cup
                 {<< <<"crop", ListV(l)>> >> : l \in {<<>>, <<IntV(224)>>}}
    IN  {d \o c : d \in devices, c \in crops}

Paths == {StrV("train.rec"), ListV(<<StrV("train.rec")>>)}

InitFactory ==
    /\ op_count = 0
    /\ ops = <<>>
    /\ instances = <<>>
    /\ call = NoCall
    /\ result = NoResult

\* getattr(ops, name)(**kwargs)
NewOperator ==
    /\ Len(ops) < MaxFactories
    /\ \E name \in GenericKinds, kwargs \in FactoryKwargs :
          LET r == Operator(name, Schema[name].op_device, kwargs)
          IN  /\ ops' = IF r.raised = "none" THEN Append(ops, r.op) ELSE ops
              /\ result' = [raised |-> r.raised, value |-> NoneV]
              /\ call' = [fn |-> "Operator.__init__", op |-> name,
                          inputs |-> <<>>, kwargs |-> kwargs]
    /\ UNCHANGED <<op_count, instances>>

\* ops.TFRecordReader(path, index_path, features)
NewTFRecordReader ==
    /\ Len(ops) < MaxFactories
    /\ \E path \in Paths, features \in FeatureMaps :
          LET r == TFRecordReader(path, StrV("train.idx"), features, <<>>)
          IN  /\ ops' = Append(ops, r.op)
              /\ result' = [raised |-> r.raised, value |-> NoneV]
              /\ call' = [fn |-> "TFRecordReader.__init__", op |-> "TFRecordReader",
                          inputs |-> <<path, StrV("train.idx")>>, kwargs |-> <<>>]
    /\ UNCHANGED <<op_count, instances>>

NextFactory == NewOperator \/ NewTFRecordReader

SpecFactory == InitFactory /\ [][NextFactory]_vars

---------------------------------------------------------------------------
(* SpecRegen: the session, in which the caller also reaches an instance   *)
(* through the source of one of its handles and calls generate_outputs    *)
(* on it again.                                                            *)

GenerateOutputsAgain ==
    \E i \in DOMAIN instances :
        /\ instances[i].op.cls # "TFRecordReader"
        /\ Len(instances[i].outputs) > 0
        /\ Len(instances[i].outputs)
              < MaxGenerations * CalculateOutputs(instances[i].op.schema,
                                                  instances[i].spec)
        /\ instances' = [instances EXCEPT ![i] = generate_outputs(@)]
        /\ result' = NoResult
        /\ call' = [fn |-> "generate_outputs", op |-> i, inputs |-> <<>>,
                    kwargs |-> <<>>]
        /\ UNCHANGED <<op_count, ops>>

NextRegen == CallOperator \/ CallTFRecordReader \/ GenerateOutputsAgain

SpecRegen == Init /\ [][NextRegen]_vars

---------------------------------------------------------------------------
(* Properties *)

\* the output slots of the instances, and of their Specs
OutputSlots ==
    UNION {{<<i, a>> : a \in DOMAIN instances[i].outputs} : i \in DOMAIN instances}
SpecSlots ==
    UNION {{<<i, a>> : a \in DOMAIN instances[i].spec.outputs} :
              i \in DOMAIN instances}
HandleAt(s) == instances[s[1]].outputs[s[2]]
OutputNames(inst) == {inst.spec.outputs[b][1] : b \in DOMAIN inst.spec.outputs}

\* "<kind>_id_<id>_output_<i>"
NameFormat(kind, id, i) ==
    kind \o "_id_" \o ToString(id) \o "_output_" \o ToString(i)

\* the last instance the session constructed
Last == instances[Len(instances)]

\* C1: after any sequence of operator invocations, every minted output
\* handle has a name no other minted handle has; the name appears exactly
\* once in the outputs of exactly one Spec, the Spec of the handle's
\* producer; exactly one instance has the producer's id, and that id is the
\* one embedded in the name.
C1_UniqueOutputNames ==
    \A s \in OutputSlots :
        LET h == HandleAt(s)
        IN  /\ \A u \in OutputSlots : u # s => HandleAt(u).name # h.name
            /\ {u \in SpecSlots : instances[u[1]].spec.outputs[u[2]][1] = h.name} = {s}
            /\ {j \in DOMAIN instances : instances[j].id = h.source} = {s[1]}
            /\ h.name = NameFormat(instances[s[1]].spec.name, h.source, s[2] - 1)

\* two instances of the same operator object, built from the same arguments
C1_Witness ==
    \E i, j \in DOMAIN instances :
        /\ i # j
        /\ instances[i].op = instances[j].op
        /\ instances[i].inputs = instances[j].inputs
        /\ Len(instances[i].outputs) > 1

\* C10: when callers pass only handles earlier invocations returned, every
\* name in an instance's Spec inputs or argument_inputs is an output name of
\* an instance with a strictly smaller id (no self-loop, no cycle, no name
\* that no Spec declares).
C10_EdgesPointBack ==
    \A i \in DOMAIN instances :
        LET spec == instances[i].spec
            used == {spec.inputs[a][1] : a \in DOMAIN spec.inputs}
                      \cup {spec.argument_inputs[a][2] : a \in DOMAIN spec.argument_inputs}
        IN  \A n \in used :
                \E j \in DOMAIN instances :
                    /\ instances[j].id < instances[i].id
                    /\ n \in OutputNames(instances[j])

\* an instance that consumes handles positionally and by keyword
C10_Witness ==
    \E i \in DOMAIN instances :
        /\ Len(instances[i].spec.inputs) > 0
        /\ Len(instances[i].spec.argument_inputs) > 0

\* C7: a call of a named-output reader with n features returns a mapping
\* whose keys are the n feature names in iteration order, mapped to n
\* pairwise distinct handles, the i-th named from kind, instance id and
\* index i; the Spec gets exactly these n outputs in that order, and the
\* plain arguments feature_names and features hold the names and the
\* descriptor values in the same order.
C7_ReaderMapping ==
    (result.raised = "none" /\ result.value.t = "dict") =>
        LET f == Last.op.features
            m == result.value.items
        IN  /\ Len(m) = Len(f)
            /\ Len(Last.spec.outputs) = Len(f)
            /\ \A i \in DOMAIN f :
                  /\ m[i][1] = f[i][1]
                  /\ m[i][2] = Last.outputs[i]
                  /\ m[i][2].name = NameFormat("_TFRecordReader", Last.id, i - 1)
                  /\ Last.spec.outputs[i] = <<m[i][2].name, m[i][2].device>>
                  /\ \A j \in DOMAIN f : j # i => m[j][2] # m[i][2]
            /\ Get(Last.spec.args, "feature_names")
                  = ListV([i \in DOMAIN f |-> StrV(f[i][1])])
            /\ Get(Last.spec.args, "features") = ListV([i \in DOMAIN f |-> f[i][2]])

\* a reader with two features has returned its mapping
C7_Witness ==
    /\ result.raised = "none"
    /\ result.value.t = "dict"
    /\ Len(result.value.items) = 2
    /\ Last.id > 0

\* C8 as claimed: for every instance of a successful invocation, the
\* entries of the Spec's inputs plus those of its argument_inputs number
\* within [min_inputs, max_inputs].
C8_SpecEntriesWithinBounds ==
    \A i \in DOMAIN instances :
        LET spec == instances[i].spec
            n == Len(spec.inputs) + Len(spec.argument_inputs)
        IN  /\ Schema[spec.name].MinNumInput <= n
            /\ n <= Schema[spec.name].MaxNumInput

\* C8 amended: for every instance of a successful invocation, the number
\* of positional inputs of the call (the instance's inputs without the
\* handle-valued keywords) lies within [min_inputs, max_inputs]; the Spec's
\* inputs number as many in scalar-handle mode and that many times
\* num_input_sets in input-set mode.
C8_PositionalWithinBounds ==
    \A i \in DOMAIN instances :
        LET spec == instances[i].spec
            k == Len(instances[i].inputs) - Len(spec.argument_inputs)
        IN  /\ Schema[spec.name].MinNumInput <= k
            /\ k <= Schema[spec.name].MaxNumInput
            /\ Len(spec.inputs) = IF "num_input_sets" \in Keys(spec.args)
                                  THEN k * Get(spec.args, "num_input_sets").v
                                  ELSE k

\* an instance whose Spec entries exceed max_inputs
C8_Witness ==
    \E i \in DOMAIN instances :
        Len(instances[i].spec.inputs) + Len(instances[i].spec.argument_inputs)
            > Schema[instances[i].spec.name].MaxNumInput

---------------------------------------------------------------------------
(* Properties of one call (SpecCall) *)

Called == call.fn \in {"Operator.__call__", "TFRecordReader.__call__"}
Callee == ops[call.op]

\* the number of positional inputs is below min_inputs or above max_inputs
OutOfBounds(c, op) ==
    \/ Len(c.inputs) < Schema[op.schema].MinNumInput
    \/ Len(c.inputs) > Schema[op.schema].MaxNumInput

\* every positional input is a list of handles
AllSetsOfHandles(inputs) ==
    /\ Len(inputs) > 0
    /\ \A j \in DOMAIN inputs :
          /\ IsList(inputs[j])
          /\ \A e \in DOMAIN inputs[j].items : IsRef(inputs[j].items[e])
SameLengths(inputs) ==
    \A j \in DOMAIN inputs : Len(inputs[j].items) = Len(inputs[1].items)
AllHandles(inputs) == \A j \in DOMAIN inputs : IsRef(inputs[j])

\* C3: a call (generic or reader) with fewer than min_inputs or more than
\* max_inputs positional inputs raises ValueError with the operator's name,
\* the bounds and the received count, before the instance is constructed:
\* the counter, the instances and the operators' Specs stay as they were.
\* A call within the bounds raises no ValueError.
C3_ArityCheckedFirst ==
    [][(call' # call) =>
          IF OutOfBounds(call', ops[call'.op])
          THEN /\ result'.raised = "ValueError"
               /\ result'.value =
                     [name |-> ops[call'.op].cls,
                      min |-> Schema[ops[call'.op].schema].MinNumInput,
                      max |-> Schema[ops[call'.op].schema].MaxNumInput,
                      received |-> Len(call'.inputs)]
               /\ op_count' = op_count
               /\ instances' = instances
               /\ ops' = ops
          ELSE result'.raised # "ValueError"]_vars

\* a call with too many inputs has raised
C3_Witness ==
    /\ Called
    /\ result.raised = "ValueError"
    /\ result.value.received > result.value.max

\* C4: in input-set mode, with k sets of L handles each, the Spec's inputs
\* are s_0[0], s_1[0], ..., s_(k-1)[0], s_0[1], ..., s_(k-1)[L-1]: k*L
\* entries, index outer and argument inner; num_input_sets is recorded as L.
C4_InputSetsInterleaved ==
    (/\ Called
     /\ AllSetsOfHandles(call.inputs)
     /\ SameLengths(call.inputs)
     /\ result.raised = "none") =>
        LET k == Len(call.inputs)
            L == Len(call.inputs[1].items)
        IN  /\ Len(Last.spec.inputs) = k * L
            /\ \A i \in 0..(L - 1), j \in 0..(k - 1) :
                  Last.spec.inputs[i * k + j + 1]
                      = <<call.inputs[j + 1].items[i + 1].name,
                          call.inputs[j + 1].items[i + 1].device>>
            /\ "num_input_sets" \in Keys(Last.spec.args)
            /\ Get(Last.spec.args, "num_input_sets") = IntV(L)

\* two sets of two handles, where index order and argument order differ
C4_Witness ==
    /\ Called
    /\ result.raised = "none"
    /\ AllSetsOfHandles(call.inputs)
    /\ Len(call.inputs) = 2
    /\ Len(call.inputs[1].items) = 2
    /\ Len(call.inputs[2].items) = 2
    /\ call.inputs[1].items[2] # call.inputs[2].items[1]

\* C5 as claimed: for every length L >= 0 of the first set, a call whose
\* positional inputs are sets of handles, one of them of a length other
\* than L, raises RuntimeError.
C5_MismatchedSetsRejected ==
    (/\ Called
     /\ ~OutOfBounds(call, Callee)
     /\ AllSetsOfHandles(call.inputs)
     /\ ~SameLengths(call.inputs)) =>
        result.raised = "RuntimeError"

\* C9 as claimed: a keyword other than name whose value is no handle makes
\* the construction raise TypeError, whether the positional inputs are
\* none, handles or input sets.
C9_PlainKeywordRejected ==
    (/\ Called
     /\ ~OutOfBounds(call, Callee)
     /\ \/ Len(call.inputs) = 0
        \/ AllHandles(call.inputs)
        \/ AllSetsOfHandles(call.inputs) /\ SameLengths(call.inputs)
     /\ \E n \in DOMAIN call.kwargs :
           call.kwargs[n][1] # "name" /\ ~IsRef(call.kwargs[n][2])) =>
        result.raised = "TypeError"

---------------------------------------------------------------------------
(* Properties of operator construction (SpecFactory) *)

Constructed == call.fn = "Operator.__init__" /\ result.raised = "none"
NewOp == ops[Len(ops)]

\* C6 as claimed: the Spec template has a plain argument device exactly
\* when the caller passed none; the default device is recorded and used
\* when absent, the passed device is used and not recorded when present.
C6_DeviceRecordedOnlyByDefault ==
    Constructed =>
        IF "device" \in Keys(call.kwargs)
        THEN /\ NewOp.device = Get(call.kwargs, "device").v
             /\ "device" \notin Keys(NewOp.spec.args)
        ELSE /\ NewOp.device = Schema[call.op].op_device
             /\ "device" \in Keys(NewOp.spec.args)
             /\ Get(NewOp.spec.args, "device") = StrV(Schema[call.op].op_device)

\* C6 amended: the Spec template always has a plain argument device, and
\* its value is the operator's device: the descriptor's default when the
\* caller passed none, the passed value when the caller passed one.
C6_DeviceAlwaysRecorded ==
    Constructed =>
        /\ "device" \in Keys(NewOp.spec.args)
        /\ Get(NewOp.spec.args, "device") = StrV(NewOp.device)
        /\ NewOp.device = IF "device" \in Keys(call.kwargs)
                          THEN Get(call.kwargs, "device").v
                          ELSE Schema[call.op].op_device

\* an operator constructed with device="gpu" over a default of "cpu"
C6_Witness ==
    /\ Constructed
    /\ "device" \in Keys(call.kwargs)
    /\ NewOp.device # Schema[call.op].op_device

---------------------------------------------------------------------------
(* Properties of repeated output generation (SpecRegen) *)

\* C2 as claimed: a second generate_outputs() on an instance raises
\* DoubleGenerationError and leaves the instance's outputs and its Spec's
\* outputs as the first call left them.
C2_SecondGenerationFails ==
    [][(call' # call /\ call'.fn = "generate_outputs") =>
          /\ result'.raised = "DoubleGenerationError"
          /\ instances' = instances]_vars
====
